---- MODULE Spec2Model ----
(***************************************************************************)
(* Model of src/jahr5.py, the aWATTar price dashboard: one Streamlit      *)
(* script that is re-executed top to bottom on every user interaction.     *)
(*                                                                         *)
(* Units and representations                                               *)
(*   - an instant is a whole number of hours since 1970-01-01T00:00 (the   *)
(*     file's epoch-millisecond values are multiples of 3 600 000; they    *)
(*     are written here divided by 3 600 000);                             *)
(*   - a calendar date is a whole number of days since 1970-01-01;         *)
(*   - a float is an exact fraction [num, den] in lowest terms with        *)
(*     den > 0; NaN is [num |-> 0, den |-> 0];                             *)
(*   - a DataFrame is [columns |-> <<names>>, rows |-> <<records>>].       *)
(***************************************************************************)
EXTENDS Integers, Sequences, FiniteSets, TLC

VARIABLES
    file,         \* contents of DATA_FILE on disk
    cache,        \* st.cache_data entry of load_data(DATA_FILE)
    session,      \* widget state kept by Streamlit between runs
    pc,           \* position of the current script run
    reads,        \* how often this run opened DATA_FILE
    message,      \* text shown by st.error in this run
    exception,    \* exception that ended this run unhandled
    df,           \* the loaded dataset
    date_range,   \* value returned by st.sidebar.date_input
    agg_mode,     \* value returned by st.sidebar.radio
    filtered_df,  \* the filtered, then aggregated frame
    stats,        \* avg_price, min_price, max_price
    chart,        \* the traces of the line chart of tab1
    pattern,      \* avg_by_hour and avg_by_day of tab2
    csv           \* the bytes handed to st.download_button

vars == << file, cache, session, pc, reads, message, exception, df, date_range,
           agg_mode, filtered_df, stats, chart, pattern, csv >>

----------------------------------------------------------------------------
(* Bounds of the model *)

MaxLen == 2

----------------------------------------------------------------------------
(* Calendar arithmetic of datetime64 / datetime.date *)

Date(ts) == ts \div 24

Hour(ts) == ts % 24

Midnight(day) == day * 24

\* proleptic Gregorian (year, month, day) of a day number
Civil(day) ==
    LET z   == day + 719468
        era == z \div 146097
        doe == z - era * 146097
        yoe == (doe - doe \div 1460 + doe \div 36524 - doe \div 146096) \div 365
        doy == doe - (365 * yoe + yoe \div 4 - yoe \div 100)
        mp  == (5 * doy + 2) \div 153
        d   == doy - (153 * mp + 2) \div 5 + 1
        m   == IF mp < 10 THEN mp + 3 ELSE mp - 9
        y   == yoe + era * 400 + (IF m <= 2 THEN 1 ELSE 0)
    IN  [year |-> y, month |-> m, day |-> d]

\* day number of a proleptic Gregorian (year, month, day)
DaysFromCivil(y, m, d) ==
    LET yy  == IF m <= 2 THEN y - 1 ELSE y
        era == yy \div 400
        yoe == yy - era * 400
        doy == (153 * (IF m > 2 THEN m - 3 ELSE m + 9) + 2) \div 5 + d - 1
        doe == yoe * 365 + yoe \div 4 - yoe \div 100 + doy
    IN  era * 146097 + doe - 719468

WeekdayNames ==
    << "Monday", "Tuesday", "Wednesday", "Thursday", "Friday", "Saturday", "Sunday" >>

\* Series.dt.day_name(): 1970-01-01 was a Thursday
DayName(ts) == WeekdayNames[((Date(ts) + 3) % 7) + 1]

\* first day of the month after the month of `day`
NextMonthStart(day) ==
    LET c == Civil(day)
    IN  IF c.month = 12 THEN DaysFromCivil(c.year + 1, 1, 1)
        ELSE DaysFromCivil(c.year, c.month + 1, 1)

MonthStart(day) == LET c == Civil(day) IN DaysFromCivil(c.year, c.month, 1)

MonthEnd(day) == NextMonthStart(day) - 1

----------------------------------------------------------------------------
(* Floats as exact fractions *)

NaN == [num |-> 0, den |-> 0]

NaT == -1

Abs(n) == IF n < 0 THEN -n ELSE n

RECURSIVE Gcd(_, _)
Gcd(a, b) == IF b = 0 THEN a ELSE Gcd(b, a % b)

Rat(n, d) ==
    LET g == Gcd(Abs(n), Abs(d))
        s == IF d < 0 THEN -1 ELSE 1
    IN  [num |-> s * (n \div g), den |-> s * (d \div g)]

IsNaN(x) == x.den = 0

RatAdd(a, b) == Rat(a.num * b.den + b.num * a.den, a.den * b.den)

RatLess(a, b) == a.num * b.den < b.num * a.den

RECURSIVE SumSkipNa(_)
SumSkipNa(xs) ==
    IF xs = << >> THEN Rat(0, 1)
    ELSE IF IsNaN(Head(xs)) THEN SumSkipNa(Tail(xs))
    ELSE RatAdd(Head(xs), SumSkipNa(Tail(xs)))

RECURSIVE CountNotNa(_)
CountNotNa(xs) ==
    IF xs = << >> THEN 0
    ELSE (IF IsNaN(Head(xs)) THEN 0 ELSE 1) + CountNotNa(Tail(xs))

\* Mean with the division forgotten (.sum() in place of .mean())
Total(xs) ==
    IF CountNotNa(xs) = 0 THEN NaN ELSE SumSkipNa(xs)

\* Series.mean(): NaN is skipped, the mean of nothing is NaN
Mean(xs) ==
    LET n == CountNotNa(xs)
        s == SumSkipNa(xs)
    IN  IF n = 0 THEN NaN ELSE Rat(s.num, s.den * n)

RECURSIVE MinSkipNa(_)
MinSkipNa(xs) ==
    IF xs = << >> THEN NaN
    ELSE LET r == MinSkipNa(Tail(xs))
             h == Head(xs)
         IN  IF IsNaN(h) THEN r
             ELSE IF IsNaN(r) THEN h
             ELSE IF RatLess(r, h) THEN r ELSE h

RECURSIVE MaxSkipNa(_)
MaxSkipNa(xs) ==
    IF xs = << >> THEN NaN
    ELSE LET r == MaxSkipNa(Tail(xs))
             h == Head(xs)
         IN  IF IsNaN(h) THEN r
             ELSE IF IsNaN(r) THEN h
             ELSE IF RatLess(h, r) THEN r ELSE h

----------------------------------------------------------------------------
(* DataFrames *)

NoFrame == [columns |-> << >>, rows |-> << >>]

Column(frame, name) == [i \in 1..Len(frame.rows) |-> frame.rows[i][name]]

SeqMin(xs) ==
    IF xs = << >> THEN NaT
    ELSE CHOOSE x \in {xs[i] : i \in 1..Len(xs)} :
             \A j \in 1..Len(xs) : x <= xs[j]

SeqMax(xs) ==
    IF xs = << >> THEN NaT
    ELSE CHOOSE x \in {xs[i] : i \in 1..Len(xs)} :
             \A j \in 1..Len(xs) : x >= xs[j]

RECURSIVE Ascending(_)
\* the elements of a finite set of integers in ascending order
Ascending(S) ==
    IF S = {} THEN << >>
    ELSE LET m == CHOOSE x \in S : \A y \in S : x <= y
         IN  << m >> \o Ascending(S \ {m})

----------------------------------------------------------------------------
(* The input file *)

DATA_FILE == "strompreise_2024_2025.json"

Instants ==
    { Midnight(DaysFromCivil(2024, 1, 30)) + 23,
      Midnight(DaysFromCivil(2024, 1, 31)),
      Midnight(DaysFromCivil(2024, 1, 31)) + 1,
      Midnight(DaysFromCivil(2024, 2, 2)) + 5,
      Midnight(DaysFromCivil(2024, 3, 1)) }

MarketPrices == { 400, 200 }

FileRecords ==
    { [start_timestamp |-> t, end_timestamp |-> t + 1, marketprice |-> p] :
          t \in Instants, p \in MarketPrices }

\* what can stand behind DATA_FILE: no file, text that is not JSON, JSON
\* without "data", records without "marketprice", records whose "marketprice"
\* is text, or a well-formed list of records in any order
FileKinds ==
    { "absent", "bad_json", "no_data", "no_marketprice", "bad_marketprice", "ok" }

Files ==
    { [kind |-> k, data |-> << >>] : k \in FileKinds \ { "ok" } }
    \cup { [kind |-> "ok", data |-> d] :
               d \in UNION { [1..n -> FileRecords] : n \in 0..MaxLen } }

----------------------------------------------------------------------------
(* load_data *)

LoadedColumns == << "start_timestamp", "end_timestamp", "marketprice", "price_ct_kwh" >>

\* pd.to_datetime(unit="ms"): the same instant as a datetime64; both sides are
\* counted in hours here, so the count itself is unchanged
ToDatetime(ms) == ms

PriceCtKwh(marketprice) == Rat(marketprice, 10)

LoadedRow(rec) ==
    [start_timestamp |-> ToDatetime(rec.start_timestamp),
     end_timestamp   |-> ToDatetime(rec.end_timestamp),
     marketprice     |-> rec.marketprice,
     price_ct_kwh    |-> PriceCtKwh(rec.marketprice)]

\* the exception load_data raises on a file, "none" if it returns
LoadRaises(f) ==
    CASE f.kind = "absent"          -> "FileNotFoundError"
      [] f.kind = "bad_json"        -> "JSONDecodeError"
      [] f.kind = "no_data"         -> "KeyError"
      [] f.kind = "no_marketprice"  -> "KeyError"
      [] f.kind = "bad_marketprice" -> "TypeError"
      [] f.kind = "ok" /\ f.data = << >> -> "KeyError"
      [] OTHER                      -> "none"

load_data(f) ==
    [columns |-> LoadedColumns,
     rows    |-> [i \in 1..Len(f.data) |-> LoadedRow(f.data[i])]]

\* AfterLoadError without the except clause: every exception is unhandled
AfterLoadErrorUncaught(exc) == "crashed"

\* the try/except around load_data: where the run goes after an exception
AfterLoadError(exc) ==
    IF exc = "FileNotFoundError" THEN "stopped" ELSE "crashed"

NotFoundMessage ==
    "Datei 'strompreise_2024_2025.json' nicht gefunden. Bitte zuerst mit cURL herunterladen."

----------------------------------------------------------------------------
(* Sidebar *)

Modes == << "Stündlich", "Täglich", "Monatlich" >>

NoStats == [avg |-> NaN, min |-> NaN, max |-> NaN]

NoChart == [x |-> << >>, y |-> << >>, x0 |-> NaT, x1 |-> NaT]

NoPattern == [by_hour |-> << >>, by_day |-> << >>]

NoSession == [range_set |-> FALSE, date_range |-> << >>, mode |-> ""]

min_date(frame) == Date(SeqMin(Column(frame, "start_timestamp")))

max_date(frame) == Date(SeqMax(Column(frame, "start_timestamp")))

\* the dates the user is offered in the date picker
DateChoices(frame) ==
    { d \in { DaysFromCivil(2024, 1, 30), DaysFromCivil(2024, 1, 31),
              DaysFromCivil(2024, 2, 1), DaysFromCivil(2024, 2, 2),
              DaysFromCivil(2024, 3, 1) } :
          min_date(frame) <= d /\ d <= max_date(frame) }

\* st.date_input with a two-element default is a range picker: it returns a
\* tuple of one date while the user has picked only the start of the range and
\* of two dates afterwards; the script does not order the pair
DateInputValues(frame) ==
    UNION { [1..n -> DateChoices(frame)] : n \in 1..2 }

----------------------------------------------------------------------------
(* Filter and aggregation *)

\* InRange with the end date excluded
InRangeEndExclusive(ts, start_date, end_date) ==
    Date(ts) >= start_date /\ Date(ts) < end_date

InRange(ts, start_date, end_date) ==
    Date(ts) >= start_date /\ Date(ts) <= end_date

FilterRows(frame, start_date, end_date) ==
    [columns |-> frame.columns,
     rows    |-> SelectSeq(frame.rows,
                     LAMBDA r : InRange(r.start_timestamp, start_date, end_date))]

\* BinLabel with months labelled by their first day ("MS" in place of "M")
BinLabelMonthStart(freq, ts) ==
    IF freq = "D" THEN Midnight(Date(ts))
    ELSE Midnight(MonthStart(Date(ts)))

\* label of the resample bin an instant falls into: "D" labels a day by its
\* midnight, "M" (month end) labels a month by the midnight of its last day
BinLabel(freq, ts) ==
    IF freq = "D" THEN Midnight(Date(ts))
    ELSE Midnight(MonthEnd(Date(ts)))

NextLabel(freq, label) ==
    IF freq = "D" THEN label + 24
    ELSE Midnight(MonthEnd(Date(label) + 1))

\* the instants of the bin labelled `label` are BinStart <= ts < BinEnd
BinStart(freq, label) ==
    IF freq = "D" THEN label
    ELSE Midnight(MonthStart(Date(label)))

BinEnd(freq, label) == label + 24

RECURSIVE LabelsFromTo(_, _, _)
LabelsFromTo(freq, first, last) ==
    IF first > last THEN << >>
    ELSE << first >> \o LabelsFromTo(freq, NextLabel(freq, first), last)

RECURSIVE AsListed(_, _)
\* the labels of the instants of tss, each once, in the order of first appearance
AsListed(freq, tss) ==
    IF tss = << >> THEN << >>
    ELSE LET front == AsListed(freq, SubSeq(tss, 1, Len(tss) - 1))
             l     == BinLabel(freq, tss[Len(tss)])
         IN  IF \E k \in 1..Len(front) : front[k] = l THEN front
             ELSE Append(front, l)

\* BinLabels as a grouping that keeps the order of the rows (sort=False)
BinLabelsAsListed(freq, tss) == AsListed(freq, tss)

\* BinLabels with the periods that hold no instant left out
BinLabelsOccupied(freq, tss) ==
    Ascending({ BinLabel(freq, tss[i]) : i \in 1..Len(tss) })

\* the bins resample lays over the data: every period from the one holding
\* the earliest instant to the one holding the latest, none if there is no row
BinLabels(freq, tss) ==
    IF tss = << >> THEN << >>
    ELSE LabelsFromTo(freq, BinLabel(freq, SeqMin(tss)), BinLabel(freq, SeqMax(tss)))

InBin(freq, label, ts) ==
    BinStart(freq, label) <= ts /\ ts < BinEnd(freq, label)

\* frame.resample(freq, on="start_timestamp")["price_ct_kwh"].mean().reset_index()
ResampleMean(freq, frame) ==
    LET labels == BinLabels(freq, Column(frame, "start_timestamp"))
    IN  [columns |-> << "start_timestamp", "price_ct_kwh" >>,
         rows    |-> [k \in 1..Len(labels) |->
                        [start_timestamp |-> labels[k],
                         price_ct_kwh    |->
                             Mean(Column(
                                 [columns |-> frame.columns,
                                  rows    |-> SelectSeq(frame.rows,
                                      LAMBDA r : InBin(freq, labels[k], r.start_timestamp))],
                                 "price_ct_kwh"))]]]

Aggregated(mode, frame) ==
    IF mode = "Täglich" THEN ResampleMean("D", frame)
    ELSE IF mode = "Monatlich" THEN ResampleMean("M", frame)
    ELSE frame

----------------------------------------------------------------------------
(* Statistics and tabs *)

Statistics(frame) ==
    [avg |-> Mean(Column(frame, "price_ct_kwh")),
     min |-> MinSkipNa(Column(frame, "price_ct_kwh")),
     max |-> MaxSkipNa(Column(frame, "price_ct_kwh"))]

LineChart(frame) ==
    [x  |-> Column(frame, "start_timestamp"),
     y  |-> Column(frame, "price_ct_kwh"),
     x0 |-> SeqMin(Column(frame, "start_timestamp")),
     x1 |-> SeqMax(Column(frame, "start_timestamp"))]

\* WithPatternColumns writing the hour over the timestamp column
WithHourAsTimestamp(frame) ==
    [columns |-> frame.columns \o << "hour", "weekday" >>,
     rows    |-> [i \in 1..Len(frame.rows) |->
                    [hour    |-> Hour(frame.rows[i].start_timestamp),
                     weekday |-> DayName(frame.rows[i].start_timestamp)]
                    @@ [frame.rows[i] EXCEPT
                            !.start_timestamp = Hour(frame.rows[i].start_timestamp)]]]

\* df["hour"] = ...; df["weekday"] = ...
WithPatternColumns(frame) ==
    [columns |-> frame.columns \o << "hour", "weekday" >>,
     rows    |-> [i \in 1..Len(frame.rows) |->
                    [hour    |-> Hour(frame.rows[i].start_timestamp),
                     weekday |-> DayName(frame.rows[i].start_timestamp)]
                    @@ frame.rows[i]]]

\* the prices of the rows whose column `name` holds `value`
PricesWhere(frame, name, value) ==
    Column([columns |-> frame.columns,
            rows    |-> SelectSeq(frame.rows, LAMBDA r : r[name] = value)],
           "price_ct_kwh")

\* df.groupby("hour")["price_ct_kwh"].mean().reset_index()
avg_by_hour(frame) ==
    LET hours == Ascending({ frame.rows[i].hour : i \in 1..Len(frame.rows) })
    IN  [k \in 1..Len(hours) |->
            [hour         |-> hours[k],
             price_ct_kwh |-> Mean(PricesWhere(frame, "hour", hours[k]))]]

\* df.groupby("weekday")["price_ct_kwh"].mean().reindex([...]).reset_index()
avg_by_day(frame) ==
    [k \in 1..Len(WeekdayNames) |->
        [weekday      |-> WeekdayNames[k],
         price_ct_kwh |-> Mean(PricesWhere(frame, "weekday", WeekdayNames[k]))]]

NoCsv == [header |-> << >>, rows |-> << >>]

\* DataFrame.to_csv(index=False): a header of the frame's column names and
\* one line per row, the cells in column order (their text form is not modelled)
ToCsv(frame) ==
    [header |-> frame.columns,
     rows   |-> [i \in 1..Len(frame.rows) |->
                   [j \in 1..Len(frame.columns) |-> frame.rows[i][frame.columns[j]]]]]

----------------------------------------------------------------------------
(* The script run *)

Init ==
    /\ file \in Files
    /\ cache = NoFrame
    /\ session = NoSession
    /\ pc = "load"
    /\ reads = 0
    /\ message = ""
    /\ exception = "none"
    /\ df = NoFrame
    /\ date_range = << >>
    /\ agg_mode = ""
    /\ filtered_df = NoFrame
    /\ stats = NoStats
    /\ chart = NoChart
    /\ pattern = NoPattern
    /\ csv = NoCsv

\* lines 29-33: load_data behind st.cache_data, inside try/except FileNotFoundError
Load ==
    /\ pc = "load"
    /\ IF cache # NoFrame
       THEN /\ df' = cache
            /\ pc' = "sidebar"
            /\ UNCHANGED << cache, reads, message, exception >>
       ELSE /\ reads' = reads + 1
            /\ IF LoadRaises(file) = "none"
               THEN /\ df' = load_data(file)
                    /\ cache' = load_data(file)
                    /\ pc' = "sidebar"
                    /\ UNCHANGED << message, exception >>
               ELSE /\ pc' = AfterLoadError(LoadRaises(file))
                    /\ message' = IF pc' = "stopped" THEN NotFoundMessage ELSE ""
                    /\ exception' = IF pc' = "stopped" THEN "none" ELSE LoadRaises(file)
                    /\ UNCHANGED << df, cache >>
    /\ UNCHANGED << file, session, date_range, agg_mode, filtered_df, stats,
                    chart, pattern, csv >>

\* lines 38-68: the widgets return the session's value, or their default
Sidebar ==
    /\ pc = "sidebar"
    /\ date_range' = IF session.range_set THEN session.date_range
                     ELSE << min_date(df), max_date(df) >>
    /\ agg_mode' = IF session.mode = "" THEN Modes[2] ELSE session.mode
    /\ pc' = "filter"
    /\ UNCHANGED << file, cache, session, reads, message, exception, df,
                    filtered_df, stats, chart, pattern, csv >>

\* lines 73-77: unpack the range, keep the rows whose date lies in it
Filter ==
    /\ pc = "filter"
    /\ IF Len(date_range) # 2
       THEN /\ exception' = "ValueError"
            /\ pc' = "crashed"
            /\ UNCHANGED filtered_df
       ELSE /\ filtered_df' = FilterRows(df, date_range[1], date_range[2])
            /\ pc' = "aggregate"
            /\ UNCHANGED exception
    /\ UNCHANGED << file, cache, session, reads, message, df, date_range,
                    agg_mode, stats, chart, pattern, csv >>

\* lines 79-86
Aggregate ==
    /\ pc = "aggregate"
    /\ filtered_df' = Aggregated(agg_mode, filtered_df)
    /\ pc' = "stats"
    /\ UNCHANGED << file, cache, session, reads, message, exception, df,
                    date_range, agg_mode, stats, chart, pattern, csv >>

\* lines 91-98
Summarize ==
    /\ pc = "stats"
    /\ stats' = Statistics(filtered_df)
    /\ pc' = "tab1"
    /\ UNCHANGED << file, cache, session, reads, message, exception, df,
                    date_range, agg_mode, filtered_df, chart, pattern, csv >>

\* lines 108-157
Tab1 ==
    /\ pc = "tab1"
    /\ chart' = LineChart(filtered_df)
    /\ pc' = "tab2"
    /\ UNCHANGED << file, cache, session, reads, message, exception, df,
                    date_range, agg_mode, filtered_df, stats, pattern, csv >>

\* lines 162-189
Tab2 ==
    /\ pc = "tab2"
    /\ df' = WithPatternColumns(df)
    /\ pattern' = [by_hour |-> avg_by_hour(df'), by_day |-> avg_by_day(df')]
    /\ pc' = "tab3"
    /\ UNCHANGED << file, cache, session, reads, message, exception,
                    date_range, agg_mode, filtered_df, stats, chart, csv >>

\* lines 194-209
Tab3 ==
    /\ pc = "tab3"
    /\ csv' = ToCsv(filtered_df)
    /\ pc' = "done"
    /\ UNCHANGED << file, cache, session, reads, message, exception, df,
                    date_range, agg_mode, filtered_df, stats, chart, pattern >>

\* a new run starts with nothing of the previous run but the cache and the session
NewRun(s) ==
    /\ session' = s
    /\ pc' = "load"
    /\ reads' = 0
    /\ message' = ""
    /\ exception' = "none"
    /\ df' = NoFrame
    /\ date_range' = << >>
    /\ agg_mode' = ""
    /\ filtered_df' = NoFrame
    /\ stats' = NoStats
    /\ chart' = NoChart
    /\ pattern' = NoPattern
    /\ csv' = NoCsv
    /\ UNCHANGED << file, cache >>

WidgetsShown == pc \in { "done", "crashed" } /\ agg_mode # ""

\* the user changes the date picker: Streamlit reruns the script
ChangeDateRange ==
    /\ WidgetsShown
    /\ \E v \in DateInputValues(df) :
          /\ v # date_range
          /\ NewRun([session EXCEPT !.range_set = TRUE, !.date_range = v])

\* the user changes the radio button: Streamlit reruns the script
ChangeMode ==
    /\ WidgetsShown
    /\ \E k \in 1..Len(Modes) :
          /\ Modes[k] # agg_mode
          /\ NewRun([session EXCEPT !.mode = Modes[k]])

\* the page is reloaded after a run that ended before the widgets
Reload ==
    /\ pc \in { "stopped", "crashed" }
    /\ agg_mode = ""
    /\ NewRun(session)

Next ==
    \/ Load
    \/ Sidebar
    \/ Filter
    \/ Aggregate
    \/ Summarize
    \/ Tab1
    \/ Tab2
    \/ Tab3
    \/ ChangeDateRange
    \/ ChangeMode
    \/ Reload

Spec == Init /\ [][Next]_vars

----------------------------------------------------------------------------
(* Vocabulary of the properties *)

\* the run has passed the aggregation of lines 79-86
Aggregation_done == pc \in { "stats", "tab1", "tab2", "tab3", "done" }

Bucketed == agg_mode \in { "Täglich", "Monatlich" }

\* indices of the records of the dataset whose date lies in the chosen range
InRangeIdx ==
    { i \in 1..Len(df.rows) :
          /\ date_range[1] <= Date(df.rows[i].start_timestamp)
          /\ Date(df.rows[i].start_timestamp) <= date_range[2] }

\* two instants lie in the same calendar day (Daily) or calendar month (Monthly)
SamePeriod(t, u) ==
    IF agg_mode = "Täglich" THEN Date(t) = Date(u)
    ELSE /\ Civil(Date(t)).year = Civil(Date(u)).year
         /\ Civil(Date(t)).month = Civil(Date(u)).month

\* the in-range records that fall into the period of entry j
Contributors(j) ==
    { i \in InRangeIdx :
          SamePeriod(df.rows[i].start_timestamp, filtered_df.rows[j].start_timestamp) }

RECURSIVE SumMarketPrice(_)
SumMarketPrice(I) ==
    IF I = {} THEN 0
    ELSE LET i == CHOOSE x \in I : TRUE
         IN  df.rows[i].marketprice + SumMarketPrice(I \ {i})

----------------------------------------------------------------------------
(* C1: for a range with start_date <= end_date, the filtered set consists of
   exactly the records of the dataset whose date lies in [start_date,
   end_date]: every kept row is such a record, and every such record is kept
   as often as the dataset holds it. *)
C1_FilterExact ==
    (pc = "aggregate" /\ date_range[1] <= date_range[2]) =>
        /\ Len(filtered_df.rows) = Cardinality(InRangeIdx)
        /\ \A j \in 1..Len(filtered_df.rows) :
              /\ date_range[1] <= Date(filtered_df.rows[j].start_timestamp)
              /\ Date(filtered_df.rows[j].start_timestamp) <= date_range[2]
        /\ \A i \in InRangeIdx :
              Cardinality({ j \in 1..Len(filtered_df.rows) :
                                filtered_df.rows[j] = df.rows[i] })
              = Cardinality({ k \in InRangeIdx : df.rows[k] = df.rows[i] })

\* a range that keeps a record dated on its last day and drops another record
C1_Witness ==
    /\ pc = "aggregate"
    /\ Len(date_range) = 2
    /\ date_range[1] < date_range[2]
    /\ Len(filtered_df.rows) < Len(df.rows)
    /\ \E j \in 1..Len(filtered_df.rows) :
          Date(filtered_df.rows[j].start_timestamp) = date_range[2]

(* C2: in Daily and Monthly mode every in-range record falls into the period
   of exactly one entry, the contributor counts of the entries add up to the
   size of the filtered set, and the value of an entry with contributors is
   the arithmetic mean of their prices, marketprice / 10. *)
C2_BucketsCompleteAndMean ==
    (Aggregation_done /\ Bucketed) =>
        /\ \A i \in InRangeIdx :
              Cardinality({ j \in 1..Len(filtered_df.rows) : i \in Contributors(j) }) = 1
        /\ Cardinality({ p \in InRangeIdx \X (1..Len(filtered_df.rows)) :
                             p[1] \in Contributors(p[2]) })
           = Cardinality(InRangeIdx)
        /\ \A j \in 1..Len(filtered_df.rows) :
              Contributors(j) # {} =>
                  /\ filtered_df.rows[j].price_ct_kwh.den > 0
                  /\ filtered_df.rows[j].price_ct_kwh.num * 10 * Cardinality(Contributors(j))
                     = SumMarketPrice(Contributors(j)) * filtered_df.rows[j].price_ct_kwh.den

\* two records of 40.0 and 20.0 ct/kWh on one day give a Daily entry of 30.0
C2_Witness ==
    /\ Aggregation_done
    /\ agg_mode = "Täglich"
    /\ \E j \in 1..Len(filtered_df.rows) :
          /\ Cardinality(Contributors(j)) = 2
          /\ { df.rows[i].marketprice : i \in Contributors(j) } = { 400, 200 }
          /\ filtered_df.rows[j].price_ct_kwh = [num |-> 30, den |-> 1]

(* C3 as stated: in Daily and Monthly mode every entry of the aggregated
   series belongs to a day or month with at least one filtered record, and no
   entry has a null value. *)
C3_Sparse ==
    (Aggregation_done /\ Bucketed) =>
        \A j \in 1..Len(filtered_df.rows) :
            /\ Contributors(j) # {}
            /\ ~IsNaN(filtered_df.rows[j].price_ct_kwh)

(* C3 amended: in Daily and Monthly mode the aggregated series has exactly one
   entry for every day or month from the first to the last one that holds a
   filtered record, and none outside; an entry is null-valued exactly when its
   day or month holds no filtered record. *)
C3_DenseFromFirstToLast ==
    (Aggregation_done /\ Bucketed) =>
        /\ \A j \in 1..Len(filtered_df.rows) :
              /\ \E a, b \in InRangeIdx :
                    /\ Date(df.rows[a].start_timestamp) <= Date(filtered_df.rows[j].start_timestamp)
                       \/ SamePeriod(df.rows[a].start_timestamp,
                                     filtered_df.rows[j].start_timestamp)
                    /\ Date(filtered_df.rows[j].start_timestamp) <= Date(df.rows[b].start_timestamp)
                       \/ SamePeriod(df.rows[b].start_timestamp,
                                     filtered_df.rows[j].start_timestamp)
              /\ IsNaN(filtered_df.rows[j].price_ct_kwh) <=> Contributors(j) = {}
        /\ \A a, b \in InRangeIdx :
              \A d \in Date(df.rows[a].start_timestamp)..Date(df.rows[b].start_timestamp) :
                  Cardinality({ j \in 1..Len(filtered_df.rows) :
                                    SamePeriod(Midnight(d),
                                               filtered_df.rows[j].start_timestamp) }) = 1

\* a null-valued entry between two entries that have records
C3_Witness ==
    /\ Aggregation_done
    /\ Bucketed
    /\ \E j \in 2..(Len(filtered_df.rows) - 1) :
          /\ IsNaN(filtered_df.rows[j].price_ct_kwh)
          /\ ~IsNaN(filtered_df.rows[j - 1].price_ct_kwh)
          /\ ~IsNaN(filtered_df.rows[j + 1].price_ct_kwh)

(* C4: when the input file is absent the run reads the file once, shows the
   error message and stops: it never leaves the load for a later stage, no
   stage output is produced, and no exception is left unhandled. *)
C4_MissingFileHalts ==
    file.kind = "absent" =>
        /\ pc \in { "load", "stopped" }
        /\ pc = "load" => reads = 0
        /\ pc = "stopped" =>
              /\ reads = 1
              /\ message = NotFoundMessage
              /\ exception = "none"
              /\ df = NoFrame
              /\ date_range = << >>
              /\ agg_mode = ""
              /\ filtered_df = NoFrame
              /\ stats = NoStats
              /\ chart = NoChart
              /\ pattern = NoPattern
              /\ csv = NoCsv

\* the run has stopped on the absent file with the message shown
C4_Witness ==
    /\ file.kind = "absent"
    /\ pc = "stopped"
    /\ message = NotFoundMessage

(* C5 as stated: when the input file is malformed the run halts with a
   user-visible message, as for a missing file, and no exception is left
   unhandled. *)
C5_MalformedHandled ==
    file.kind \in { "bad_json", "no_data", "no_marketprice", "bad_marketprice" } =>
        /\ pc \in { "load", "stopped" }
        /\ exception = "none"
        /\ pc = "stopped" => message # ""

(* C6 as stated: for every value of the date picker that is not a start and an
   end date with start <= end, the run raises no exception and its aggregated
   series is empty. *)
C6_InvalidRangeIsEmpty ==
    (/\ agg_mode # ""
     /\ \/ Len(date_range) # 2
        \/ date_range[2] < date_range[1]) =>
        /\ exception = "none"
        /\ pc # "crashed"
        /\ Aggregation_done => filtered_df.rows = << >>

(* C7 as stated: in every mode and for every order of the records in the file,
   the entries of the aggregated series are ordered by bucket key ascending. *)
C7_AscendingInEveryMode ==
    Aggregation_done =>
        \A j, k \in 1..Len(filtered_df.rows) :
            j < k => filtered_df.rows[j].start_timestamp <= filtered_df.rows[k].start_timestamp

(* C7 amended: in Daily and Monthly mode the entries are ordered by bucket key
   strictly ascending, whatever the order of the records in the file; in
   Hourly mode the entries are the in-range records in the order of the file,
   so they ascend exactly when the file lists those records ascending. *)
C7_AscendingWhenBucketed ==
    Aggregation_done =>
        /\ Bucketed =>
              \A j, k \in 1..Len(filtered_df.rows) :
                  j < k => filtered_df.rows[j].start_timestamp
                               < filtered_df.rows[k].start_timestamp
        /\ agg_mode = "Stündlich" =>
              /\ Len(filtered_df.rows) = Cardinality(InRangeIdx)
              /\ \A j \in 1..Len(filtered_df.rows) :
                    \E i \in InRangeIdx :
                        /\ Cardinality({ h \in InRangeIdx : h <= i }) = j
                        /\ filtered_df.rows[j].start_timestamp = df.rows[i].start_timestamp

\* a Daily series of two entries or more from a file that lists a later record first
C7_Witness ==
    /\ Aggregation_done
    /\ agg_mode = "Täglich"
    /\ Len(filtered_df.rows) >= 2
    /\ \E a, b \in InRangeIdx :
          a < b /\ Date(df.rows[a].start_timestamp) > Date(df.rows[b].start_timestamp)

(* C8 as stated: the key of a Daily entry is midnight of the calendar day of
   its records, and the key of a Monthly entry is midnight of the first day of
   the calendar month of its records. *)
C8_KeyIsPeriodStart ==
    (Aggregation_done /\ Bucketed) =>
        \A j \in 1..Len(filtered_df.rows) :
            /\ Hour(filtered_df.rows[j].start_timestamp) = 0
            /\ agg_mode = "Monatlich" =>
                  Civil(Date(filtered_df.rows[j].start_timestamp)).day = 1
            /\ \A i \in InRangeIdx :
                  Date(df.rows[i].start_timestamp) = Date(filtered_df.rows[j].start_timestamp)
                      => i \in Contributors(j)

(* C8 amended: the key of a Daily entry is midnight of the calendar day of its
   records; the key of a Monthly entry is midnight of the last day of the
   calendar month of its records. Every in-range record has such an entry. *)
C8_KeyIsDayOrMonthEnd ==
    (Aggregation_done /\ Bucketed) =>
        /\ \A j \in 1..Len(filtered_df.rows) :
              /\ Hour(filtered_df.rows[j].start_timestamp) = 0
              /\ agg_mode = "Monatlich" =>
                    Civil(Date(filtered_df.rows[j].start_timestamp) + 1).day = 1
        /\ \A i \in InRangeIdx :
              \E j \in 1..Len(filtered_df.rows) :
                  /\ i \in Contributors(j)
                  /\ agg_mode = "Täglich" =>
                        filtered_df.rows[j].start_timestamp
                            = Midnight(Date(df.rows[i].start_timestamp))
                  /\ agg_mode = "Monatlich" =>
                        /\ Date(filtered_df.rows[j].start_timestamp)
                               >= Date(df.rows[i].start_timestamp)
                        /\ Date(filtered_df.rows[j].start_timestamp)
                               - Date(df.rows[i].start_timestamp) <= 30

\* a Monthly entry for February 2024, keyed 2024-02-29T00:00, with a record
C8_Witness ==
    /\ Aggregation_done
    /\ agg_mode = "Monatlich"
    /\ \E j \in 1..Len(filtered_df.rows) :
          /\ Contributors(j) # {}
          /\ filtered_df.rows[j].start_timestamp = Midnight(DaysFromCivil(2024, 2, 29))

(* C9 as stated: in every mode the CSV export has one row per entry of the
   aggregated series and exactly the two columns Zeitpunkt and
   Preis (ct/kWh). *)
C9_CsvTwoNamedColumns ==
    pc = "done" =>
        /\ Len(csv.rows) = Len(filtered_df.rows)
        /\ csv.header = << "Zeitpunkt", "Preis (ct/kWh)" >>
        /\ \A i \in 1..Len(csv.rows) : Len(csv.rows[i]) = 2

(* C10 as stated: at the end of a run the dataset is what the load returned:
   the same columns and the same rows. *)
C10_DatasetUnchanged ==
    pc = "done" => df = cache

(* C10 amended: no stage after the load adds, drops or reorders a record or
   changes the value of a loaded field (start_timestamp, end_timestamp,
   marketprice, price_ct_kwh); the pattern analysis adds the two derived
   columns hour and weekday to the dataset, which it has at the end of the
   run, and the cached load result stays as loaded. *)
C10_LoadedFieldsUnchanged ==
    (pc \in { "sidebar", "filter", "aggregate", "stats", "tab1", "tab2", "tab3", "done" }
         \/ (pc = "crashed" /\ agg_mode # "")) =>
        /\ cache = load_data(file)
        /\ Len(df.rows) = Len(cache.rows)
        /\ \A i \in 1..Len(df.rows) :
              \A c \in { LoadedColumns[k] : k \in 1..Len(LoadedColumns) } :
                  df.rows[i][c] = cache.rows[i][c]
        /\ df.columns = IF pc \in { "tab3", "done" }
                        THEN LoadedColumns \o << "hour", "weekday" >>
                        ELSE LoadedColumns

\* the run has ended with the two derived columns in the dataset
C10_Witness ==
    /\ pc = "done"
    /\ Len(df.rows) >= 1
    /\ df.columns # cache.columns
    /\ \A i \in 1..Len(df.rows) : df.rows[i].hour = Hour(cache.rows[i].start_timestamp)

====
